---- MODULE Spec2Model ----
(***************************************************************************)
(* Production planning parser: the upload endpoint, the parse_excel_file   *)
(* job (read -> extract -> ingest -> cleanup), the production_orders       *)
(* collection and the get / delete endpoints of the retrieval facade.      *)
(*                                                                         *)
(* Strings the code inspects character by character (file names, model     *)
(* responses) are sequences of one-character strings.  Identifiers handed  *)
(* to get / delete are records: kind "oid" is a string that bson.ObjectId  *)
(* accepts (24 hex digits, n is the ObjectId it denotes), kind "text" is   *)
(* any other string.                                                       *)
(***************************************************************************)
EXTENDS Integers, Sequences, FiniteSets, TLC

\* ------------------------------------------------------------------ bounds
MaxUploads == 2
MaxReruns == 1
FacadeUploads == 1
MaxOrders == 2
MaxReqs == 2
MaxChunks == 5

VARIABLES
    uploads,    \* history: the finished upload requests, one record each
    files,      \* temporary files that exist in data/_tmp (by upload index)
    pc,         \* pc[j]: position of job j inside parse_excel_file
    runs,       \* runs[j]: number of invocations of job j so far
    prev,       \* history: prev[j], how the previous invocation of job j ended
    orders,     \* orders[j]: orders_data of the current invocation
    stored,     \* stored[j]: stored_count of the current invocation
    err,        \* err[j]: the exception the current invocation is handling
    result,     \* result[j]: the dict the current invocation returned
    store,      \* the production_orders collection
    nextId,     \* next ObjectId the store assigns
    clock,      \* datetime.utcnow(), as a logical time
    reqs,       \* get / delete requests in flight or finished
    okDeleted,  \* history: identifiers deleted successfully since the last insert
    resp,       \* response recovery: the model response under examination
    rpc,        \* response recovery: "build" or "done"
    out         \* response recovery: the text handed to json.loads

vars == <<uploads, files, pc, runs, prev, orders, stored, err, result,
          store, nextId, clock, reqs, okDeleted, resp, rpc, out>>

jobVars == <<pc, runs, prev, orders, stored, err, result>>
upVars == <<uploads, files>>
storeVars == <<store, nextId, clock, okDeleted>>
recVars == <<resp, rpc, out>>

Jobs == 1..MaxUploads
Reqs == 1..MaxReqs

Min(S) == CHOOSE x \in S : \A y \in S : x <= y
Max(S) == CHOOSE x \in S : \A y \in S : x >= y

\* ------------------------------------------------------- python str helpers
\* s.startswith(sub, i), i counted from 0
Occurs(s, sub, i) ==
    /\ i >= 0
    /\ i + Len(sub) <= Len(s)
    /\ \A k \in 1..Len(sub) : s[i + k] = sub[k]

\* s.find(sub, start): lowest index >= start, or -1
Find(s, sub, start) ==
    LET hits == {i \in start..(Len(s) - Len(sub)) : Occurs(s, sub, i)}
    IN  IF hits = {} THEN -1 ELSE Min(hits)

\* s.rfind(sub): highest index, or -1
RFind(s, sub) ==
    LET hits == {i \in 0..(Len(s) - Len(sub)) : Occurs(s, sub, i)}
    IN  IF hits = {} THEN -1 ELSE Max(hits)

\* sub in s
Contains(s, sub) == Find(s, sub, 0) # -1

\* s[a:b]: a negative index counts from the end, indices are clamped
Slice(s, a, b) ==
    LET n == Len(s)
        clamp(i) == IF i < 0 THEN (IF n + i < 0 THEN 0 ELSE n + i)
                    ELSE (IF i > n THEN n ELSE i)
        lo == clamp(a)
        hi == clamp(b)
    IN  IF lo >= hi THEN <<>> ELSE SubSeq(s, lo + 1, hi)

IsSpace(c) == c \in {" ", "\n"}

\* s.strip()
Strip(s) ==
    LET keep == {i \in 1..Len(s) : ~IsSpace(s[i])}
    IN  IF keep = {} THEN <<>> ELSE SubSeq(s, Min(keep), Max(keep))

\* s.endswith(suffix)
EndsWith(s, suffix) == Occurs(s, suffix, Len(s) - Len(suffix))

\* --------------------------------------------------------- response recovery
\* The character "~" stands for the backquote of a fence marker, which a
\* TLA+ string cannot hold.
Fence == <<"~", "~", "~">>
JsonFence == <<"~", "~", "~", "j", "s", "o", "n">>

\* tasks.py 79-86: the text handed to json.loads
RecoverJson(rc) ==
    IF Contains(rc, JsonFence)
    THEN LET json_start == Find(rc, JsonFence, 0) + 7
             json_end == Find(rc, Fence, json_start)
         IN  Strip(Slice(rc, json_start, json_end))
    ELSE IF Contains(rc, Fence)
    THEN LET json_start == Find(rc, Fence, 0) + 3
             json_end == RFind(rc, Fence)
         IN  Strip(Slice(rc, json_start, json_end))
    ELSE rc

\* json.loads: "P" stands for a JSON object text {"orders": [...]}, "L" for
\* a JSON text that is valid but is no object; whitespace around it is
\* accepted; every other text raises JSONDecodeError.
JsonLoads(text) ==
    IF Strip(text) = <<"P">> THEN "object"
    ELSE IF Strip(text) = <<"L">> THEN "list"
    ELSE "JSONDecodeError"

\* The pieces the completion service builds its response from (response
\* recovery specification): resp is the sequence of piece names, Text(resp)
\* the characters of response.content.
ChunkText(c) ==
    CASE c = "fence" -> Fence
      [] c = "tick"  -> <<"~">>
      [] c = "json"  -> <<"j", "s", "o", "n">>
      [] c = "obj"   -> <<"P">>
      [] c = "nl"    -> <<"\n">>
      [] OTHER       -> <<"x">>

ChunkNames == {"fence", "tick", "json", "obj", "nl", "prose"}

RECURSIVE Text(_)
Text(cs) == IF cs = <<>> THEN <<>> ELSE ChunkText(Head(cs)) \o Text(Tail(cs))

RecInit == resp = <<>> /\ rpc = "build" /\ out = <<>>

\* The completion service adds a piece to its response.
AppendChunk(c) ==
    /\ rpc = "build"
    /\ Len(resp) < MaxChunks
    /\ resp' = Append(resp, c)
    /\ UNCHANGED <<rpc, out, upVars, jobVars, storeVars, reqs>>

\* tasks.py 73-88 on the finished response.
Recover ==
    /\ rpc = "build"
    /\ rpc' = "done"
    /\ out' = RecoverJson(Text(resp))
    /\ UNCHANGED <<resp, upVars, jobVars, storeVars, reqs>>

\* ------------------------------------------------------------------ upload
Xlsx == <<".", "x", "l", "s", "x">>
Xls == <<".", "x", "l", "s">>

\* File names offered to the upload endpoint: a.xlsx, a.xls, a.xls.csv
FileNames ==
    { <<"a">> \o Xlsx, <<"a">> \o Xls, <<"a">> \o Xls \o <<".", "c", "s", "v">> }

\* What can go wrong after validation: aiofiles.open fails, f.write fails
\* with the file already created, parse_excel_file.delay fails.
UploadFaults == {"none", "open", "write", "enqueue"}

\* Mutant of ValidFileType: the extension is looked for anywhere in the name.
ValidFileTypeAnywhere(fn) == Contains(fn, Xlsx) \/ Contains(fn, Xls)

\* main.py 96: file.filename.endswith(('.xlsx', '.xls'))
ValidFileType(fn) == EndsWith(fn, Xlsx) \/ EndsWith(fn, Xls)

\* main.py 90-136: upload_file.  The request is the u-th one; its uuid4 file
\* name and the id of the task it enqueues are both written u.
Upload(fn, fault) ==
    /\ Len(uploads) < MaxUploads
    /\ LET u == Len(uploads) + 1
           entry(st, w, t) == [filename |-> fn, fault |-> fault, status |-> st,
                               wrote |-> w, task_id |-> t]
       IN  IF ~ValidFileType(fn)
           THEN /\ fault = "none"
                /\ uploads' = Append(uploads, entry(400, FALSE, 0))
                /\ UNCHANGED <<files, pc, runs>>
           ELSE IF fault = "open"
           THEN /\ uploads' = Append(uploads, entry(500, FALSE, 0))
                /\ UNCHANGED <<files, pc, runs>>
           ELSE IF fault \in {"write", "enqueue"}
           THEN /\ uploads' = Append(uploads, entry(500, TRUE, 0))
                /\ files' = files \cup {u}
                /\ UNCHANGED <<pc, runs>>
           ELSE /\ uploads' = Append(uploads, entry(202, TRUE, u))
                /\ files' = files \cup {u}
                /\ pc' = [pc EXCEPT ![u] = "queued"]
                /\ runs' = [runs EXCEPT ![u] = 1]
    /\ UNCHANGED <<prev, orders, stored, err, result, storeVars, reqs, recVars>>

\* ------------------------------------------------------ parse_excel_file
OrderIds == {[kind |-> "text", n |-> 1], [kind |-> "oid", n |-> 2]}
OrderSeqs == UNION {[1..n -> OrderIds] : n \in 0..MaxOrders}

\* Responses of the completion service seen by the job: bare JSON, a json
\* fence, a plain fence, a json fence that is never closed, prose, and a
\* JSON text that is no object.
Responses ==
    { <<"P">>,
      JsonFence \o <<"\n", "P", "\n">> \o Fence,
      Fence \o <<"\n", "P", "\n">> \o Fence,
      JsonFence \o <<"\n", "P">>,
      <<"x">>,
      <<"L">> }

NoResult == [status |-> "none"]

\* tasks.py 116-122
SuccessResult(j) ==
    [status |-> "success", filename |-> uploads[j].filename,
     orders_processed |-> Len(orders[j]), orders_stored |-> stored[j],
     task_id |-> j]

\* tasks.py 129-134
ErrorResult(j) ==
    [status |-> "error", filename |-> uploads[j].filename,
     error |-> err[j], task_id |-> j]

Raise(j, e) ==
    /\ pc' = [pc EXCEPT ![j] = "handler"]
    /\ err' = [err EXCEPT ![j] = e]

\* tasks.py 20-23: pd.read_excel(file_path) and df.to_csv
ReadExcel(j) ==
    /\ pc[j] = "queued"
    /\ IF j \notin files
       THEN Raise(j, "FileNotFoundError")
       ELSE \/ /\ pc' = [pc EXCEPT ![j] = "extract"]
               /\ UNCHANGED err
            \/ Raise(j, "read")
    /\ UNCHANGED <<upVars, runs, prev, orders, stored, result, storeVars,
                   reqs, recVars>>

\* tasks.py 26-93: llm.invoke, response recovery, json.loads, .get("orders")
Extract(j) ==
    /\ pc[j] = "extract"
    /\ \/ /\ Raise(j, "llm")
          /\ UNCHANGED orders
       \/ \E r \in Responses :
            LET parsed == JsonLoads(RecoverJson(r))
            IN  IF parsed = "JSONDecodeError"
                THEN Raise(j, "json") /\ UNCHANGED orders
                ELSE IF parsed = "list"
                THEN Raise(j, "attr") /\ UNCHANGED orders
                ELSE \E os \in OrderSeqs :
                       /\ orders' = [orders EXCEPT ![j] = os]
                       /\ pc' = [pc EXCEPT ![j] =
                                   IF os = <<>> THEN "cleanup" ELSE "ingest"]
                       /\ UNCHANGED err
    /\ UNCHANGED <<upVars, runs, prev, stored, result, storeVars, reqs, recVars>>

\* tasks.py 103-110: one turn of the insert loop
InsertOne(j) ==
    /\ pc[j] = "ingest"
    /\ \/ /\ store' = store \cup
                 {[_id |-> nextId, order_id |-> orders[j][stored[j] + 1],
                   task_id |-> j, created_at |-> clock]}
          /\ nextId' = nextId + 1
          /\ clock' = clock + 1
          /\ okDeleted' = {}
          /\ stored' = [stored EXCEPT ![j] = @ + 1]
          /\ pc' = [pc EXCEPT ![j] =
                      IF stored[j] + 1 = Len(orders[j]) THEN "cleanup" ELSE "ingest"]
          /\ UNCHANGED err
       \/ /\ Raise(j, "store")
          /\ UNCHANGED <<stored, storeVars>>
    /\ UNCHANGED <<upVars, runs, prev, orders, result, reqs, recVars>>

\* Mutant of Cleanup: the success path returns without removing the file.
CleanupKeepsFile(j) ==
    /\ pc[j] = "cleanup"
    /\ pc' = [pc EXCEPT ![j] = "returned"]
    /\ result' = [result EXCEPT ![j] = SuccessResult(j)]
    /\ UNCHANGED <<upVars, runs, prev, orders, stored, err, storeVars, reqs, recVars>>

\* tasks.py 112-122: remove the temporary file, return the success dict
Cleanup(j) ==
    /\ pc[j] = "cleanup"
    /\ IF j \in files
       THEN \/ /\ files' = files \ {j}
               /\ pc' = [pc EXCEPT ![j] = "returned"]
               /\ result' = [result EXCEPT ![j] = SuccessResult(j)]
               /\ UNCHANGED err
            \/ /\ Raise(j, "remove")
               /\ UNCHANGED <<files, result>>
       ELSE /\ pc' = [pc EXCEPT ![j] = "returned"]
            /\ result' = [result EXCEPT ![j] = SuccessResult(j)]
            /\ UNCHANGED <<files, err>>
    /\ UNCHANGED <<uploads, runs, prev, orders, stored, storeVars, reqs, recVars>>

\* Mutant of Handler: the error path returns without removing the file.
HandlerKeepsFile(j) ==
    /\ pc[j] = "handler"
    /\ pc' = [pc EXCEPT ![j] = "returned"]
    /\ result' = [result EXCEPT ![j] = ErrorResult(j)]
    /\ UNCHANGED <<upVars, runs, prev, orders, stored, err, storeVars, reqs, recVars>>

\* tasks.py 124-134: except Exception: remove the file, return the error
\* dict; an os.remove that raises here leaves the function as an exception.
Handler(j) ==
    /\ pc[j] = "handler"
    /\ IF j \in files
       THEN \/ /\ files' = files \ {j}
               /\ pc' = [pc EXCEPT ![j] = "returned"]
               /\ result' = [result EXCEPT ![j] = ErrorResult(j)]
               /\ UNCHANGED err
            \/ /\ pc' = [pc EXCEPT ![j] = "raised"]
               /\ err' = [err EXCEPT ![j] = "remove"]
               /\ UNCHANGED <<files, result>>
       ELSE /\ pc' = [pc EXCEPT ![j] = "returned"]
            /\ result' = [result EXCEPT ![j] = ErrorResult(j)]
            /\ UNCHANGED <<files, err>>
    /\ UNCHANGED <<uploads, runs, prev, orders, stored, storeVars, reqs, recVars>>

RECURSIVE SumRuns(_)
SumRuns(J) ==
    IF J = {} THEN 0
    ELSE LET j == CHOOSE k \in J : TRUE
         IN  (IF runs[j] > 1 THEN runs[j] - 1 ELSE 0) + SumRuns(J \ {j})

\* The task queue runs job j again (same arguments, same task id) after an
\* invocation of it has ended; it does so MaxReruns times in all.
Rerun(j) ==
    /\ pc[j] \in {"returned", "raised"}
    /\ SumRuns(Jobs) < MaxReruns
    /\ prev' = [prev EXCEPT ![j] =
                  IF pc[j] = "raised" THEN "raised" ELSE result[j].status]
    /\ runs' = [runs EXCEPT ![j] = @ + 1]
    /\ pc' = [pc EXCEPT ![j] = "queued"]
    /\ orders' = [orders EXCEPT ![j] = <<>>]
    /\ stored' = [stored EXCEPT ![j] = 0]
    /\ err' = [err EXCEPT ![j] = "none"]
    /\ result' = [result EXCEPT ![j] = NoResult]
    /\ UNCHANGED <<upVars, storeVars, reqs, recVars>>

\* ------------------------------------------------------- retrieval facade
\* The store is available: db is set and find_one / delete_one do not raise.
Idents == {[kind |-> "text", n |-> 1], [kind |-> "oid", n |-> 1],
           [kind |-> "oid", n |-> 2]}

IdleReq == [op |-> "none", x |-> [kind |-> "none", n |-> 0], pc |-> "idle",
            status |-> 0, after |-> FALSE]

\* Mutant of LookupQuery: every identifier is looked up as an order_id.
LookupQueryByOrderId(x) == [field |-> "order_id", value |-> x]

\* main.py 220-224 and 271-275: ObjectId(item_id), or the order_id fallback
\* when bson raises InvalidId
LookupQuery(x) ==
    IF x.kind = "oid" THEN [field |-> "_id", value |-> x.n]
    ELSE [field |-> "order_id", value |-> x]

\* The documents a query matches
Matches(q) ==
    {d \in store : IF q.field = "_id" THEN d._id = q.value
                   ELSE d.order_id = q.value}

\* Request slots are taken in order.
FreeSlot(r) ==
    /\ reqs[r].pc = "idle"
    /\ IF r = 1 THEN TRUE ELSE reqs[r - 1].pc # "idle"

\* main.py 209-257: get_production_item.  A document that is found is
\* formatted (231-252); the fields the completion service supplied are not
\* validated, so the formatting may raise (a timeline that is no mapping)
\* and the request is then answered 500.
GetItem(r, x) ==
    /\ FreeSlot(r)
    /\ \E st \in {200, 500} :
          reqs' = [reqs EXCEPT ![r] =
              [op |-> "get", x |-> x, pc |-> "done", after |-> FALSE,
               status |-> IF Matches(LookupQuery(x)) = {} THEN 404 ELSE st]]
    /\ UNCHANGED <<upVars, jobVars, storeVars, recVars>>

\* main.py 260-280: delete_production_item up to the existence check
DeleteCheck(r, x) ==
    /\ FreeSlot(r)
    /\ LET req(p, st) == [op |-> "delete", x |-> x, pc |-> p,
                          after |-> x \in okDeleted, status |-> st]
       IN  reqs' = [reqs EXCEPT ![r] =
              IF Matches(LookupQuery(x)) = {} THEN req("done", 404)
              ELSE req("found", 0)]
    /\ UNCHANGED <<upVars, jobVars, storeVars, recVars>>

\* Mutant of DeleteOne: delete_many in place of delete_one.
DeleteMany(r) ==
    /\ reqs[r].pc = "found"
    /\ LET m == Matches(LookupQuery(reqs[r].x))
       IN  /\ store' = store \ m
           /\ okDeleted' = okDeleted \cup {reqs[r].x}
           /\ reqs' = [reqs EXCEPT ![r].pc = "done",
                                   ![r].status = IF m = {} THEN 500 ELSE 200]
    /\ UNCHANGED <<upVars, jobVars, nextId, clock, recVars>>

\* main.py 282-298: delete_one and the deleted_count test
DeleteOne(r) ==
    /\ reqs[r].pc = "found"
    /\ LET m == Matches(LookupQuery(reqs[r].x))
       IN  \/ /\ m = {}
              /\ reqs' = [reqs EXCEPT ![r].pc = "done", ![r].status = 500]
              /\ UNCHANGED <<store, okDeleted>>
           \/ \E d \in m :
                /\ store' = store \ {d}
                /\ okDeleted' = okDeleted \cup {reqs[r].x}
                /\ reqs' = [reqs EXCEPT ![r].pc = "done", ![r].status = 200]
    /\ UNCHANGED <<upVars, jobVars, nextId, clock, recVars>>

\* ---------------------------------------------------------- specifications
Init ==
    /\ uploads = <<>>
    /\ files = {}
    /\ pc = [j \in Jobs |-> "none"]
    /\ runs = [j \in Jobs |-> 0]
    /\ prev = [j \in Jobs |-> "none"]
    /\ orders = [j \in Jobs |-> <<>>]
    /\ stored = [j \in Jobs |-> 0]
    /\ err = [j \in Jobs |-> "none"]
    /\ result = [j \in Jobs |-> NoResult]
    /\ store = {}
    /\ nextId = 1
    /\ clock = 1
    /\ reqs = [r \in Reqs |-> IdleReq]
    /\ okDeleted = {}
    /\ RecInit

\* The upload endpoint, the task queue and its workers.
Next ==
    \/ \E fn \in FileNames, fault \in UploadFaults : Upload(fn, fault)
    \/ \E j \in Jobs : ReadExcel(j)
    \/ \E j \in Jobs : Extract(j)
    \/ \E j \in Jobs : InsertOne(j)
    \/ \E j \in Jobs : Cleanup(j)
    \/ \E j \in Jobs : Handler(j)
    \/ \E j \in Jobs : Rerun(j)

Spec == Init /\ [][Next]_vars

\* The retrieval facade next to the workers: FacadeUploads uploads that meet
\* no input/output fault, whose jobs ingest while get and delete requests
\* are served.
FacadeUpload ==
    /\ Len(uploads) < FacadeUploads
    /\ \E fn \in FileNames : Upload(fn, "none")

FacadeNext ==
    \/ FacadeUpload
    \/ \E j \in Jobs : ReadExcel(j)
    \/ \E j \in Jobs : Extract(j)
    \/ \E j \in Jobs : InsertOne(j)
    \/ \E j \in Jobs : Cleanup(j)
    \/ \E j \in Jobs : Handler(j)
    \/ \E r \in Reqs, x \in Idents : GetItem(r, x)
    \/ \E r \in Reqs, x \in Idents : DeleteCheck(r, x)
    \/ \E r \in Reqs : DeleteOne(r)

SpecFacade == Init /\ [][FacadeNext]_vars

\* Response recovery on its own: the completion service builds a response,
\* then the job recovers the JSON text from it.
RecNext ==
    \/ \E c \in ChunkNames : AppendChunk(c)
    \/ Recover

SpecRecover == Init /\ [][RecNext]_vars

\* ------------------------------------------------------------------ claims
Ended(j) == pc[j] \in {"returned", "raised"}

\* C1: once an invocation has returned its result the temporary file is gone
C1_Returned == \A j \in Jobs : pc[j] = "returned" => j \notin files

\* C1: a job's file disappears only in its cleanup, after every record was
\* written, or in its exception handler, after a step failed
C1_Order ==
    \A j \in Jobs :
        (j \in files /\ j \notin files') =>
            /\ pc[j] \in {"cleanup", "handler"}
            /\ pc[j] = "cleanup" => (stored[j] = Len(orders[j]) /\ err[j] = "none")
            /\ pc[j] = "handler" => err[j] # "none"

\* C1: whatever step of a job fails or succeeds, the temporary file no longer
\* exists once the job has returned its terminal result, and it is removed
\* only after ingestion has finished or a step has failed.
C1_TempFileRemoved == []C1_Returned /\ [][C1_Order]_vars

C1_Witness ==
    \E j \in Jobs :
        /\ pc[j] = "returned" /\ result[j].status = "success"
        /\ stored[j] = MaxOrders /\ j \notin files

\* C2: every error raised inside a job, the cleanup's included, ends the
\* invocation with a returned result of status error that carries the message
\* and the task id; nothing is raised out of the job.
C2_ErrorsCaughtAtBoundary ==
    \A j \in Jobs :
        (Ended(j) /\ err[j] # "none") =>
            /\ pc[j] = "returned"
            /\ result[j].status = "error"
            /\ result[j].error = err[j]
            /\ result[j].task_id = j

\* C4: when a write fails, the result the job returns reports the error and
\* the number of records written before the failure.
C4_ErrorReportsStoredCount ==
    \A j \in Jobs :
        (pc[j] = "returned" /\ err[j] = "store") =>
            /\ result[j].status = "error"
            /\ stored[j] < Len(orders[j])
            /\ "orders_stored" \in DOMAIN result[j]
            /\ result[j].orders_stored = stored[j]

\* C5: a re-run that follows a returned invocation finds the file gone: it
\* writes nothing and can only return the read error
C5_RerunState ==
    \A j \in Jobs :
        (runs[j] >= 2 /\ prev[j] \in {"success", "error"}) =>
            /\ j \notin files
            /\ stored[j] = 0
            /\ pc[j] \in {"queued", "handler", "returned"}
            /\ pc[j] = "returned" =>
                   (result[j].status = "error"
                    /\ result[j].error = "FileNotFoundError")

\* C5: every record a job writes becomes a new document of its own
C5_InsertIsNew ==
    \A j \in Jobs :
        stored'[j] = stored[j] + 1 =>
            \E d \in store' \ store :
                /\ store' = store \cup {d}
                /\ d.task_id = j
                /\ d.order_id = orders[j][stored'[j]]
                /\ \A e \in store : e._id # d._id /\ e.created_at # d.created_at

HasSheetExtension(fn) ==
    \/ Len(fn) >= 5 /\ SubSeq(fn, Len(fn) - 4, Len(fn)) = Xlsx
    \/ Len(fn) >= 4 /\ SubSeq(fn, Len(fn) - 3, Len(fn)) = Xls

\* C8: an upload whose name does not end with .xlsx or .xls is answered 400,
\* writes no temporary file and enqueues no job; no other upload is answered
\* 400; an upload with an accepted name that meets no input/output fault
\* writes the one file named after it, enqueues the one job carrying its task
\* id and is answered 202.
C8_UploadValidation ==
    \A u \in 1..Len(uploads) :
        LET e == uploads[u]
        IN  /\ e.status = 400 <=> ~HasSheetExtension(e.filename)
            /\ e.status = 400 =>
                   (~e.wrote /\ e.task_id = 0 /\ u \notin files /\ pc[u] = "none")
            /\ (HasSheetExtension(e.filename) /\ e.fault = "none") =>
                   e.status = 202
            /\ e.status = 202 => (e.wrote /\ e.task_id = u /\ runs[u] >= 1)
            /\ e.status # 202 => (e.task_id = 0 /\ pc[u] = "none")
            /\ \A v \in 1..Len(uploads) :
                   (v # u /\ e.task_id # 0) => uploads[v].task_id # e.task_id

C8_Witness ==
    \E u, v \in 1..Len(uploads) :
        /\ uploads[u].status = 400 /\ u \notin files
        /\ uploads[v].status = 202 /\ v \in files /\ pc[v] = "queued"

\* C10: when an upload request ends with a 500 error, no temporary file of
\* that request remains.
C10_NoFileLeftAfter500 ==
    \A u \in 1..Len(uploads) : uploads[u].status = 500 => u \notin files

\* A request takes its first step: the lookup
Started(r) == reqs[r].pc = "idle" /\ reqs'[r].pc # "idle"

NoDocWithId(x) == \A d \in store : ~(x.kind = "oid" /\ d._id = x.n)
NoDocWithOrderId(x) == \A d \in store : d.order_id # x

C6_Lookup ==
    \A r \in Reqs :
        Started(r) =>
            LET x == reqs'[r].x
                miss == IF x.kind = "oid" THEN NoDocWithId(x)
                        ELSE NoDocWithOrderId(x)
            IN  /\ reqs'[r].status = 404 <=> miss
                /\ miss => reqs'[r].pc = "done"
                /\ (~miss /\ reqs'[r].op = "get") => reqs'[r].status \in {200, 500}
                /\ (~miss /\ reqs'[r].op = "delete") => reqs'[r].pc = "found"

\* C6 (amended): with the store available, get(x) and delete(x) answer
\* NotFound, and never a server error, exactly when x is a syntactically
\* valid storage identifier that no document carries, or x is no valid
\* storage identifier and no document has order_id x; in every other case
\* the lookup finds a document.  A valid storage identifier is never looked
\* up as an order_id.
C6_LookupNotFound == [][C6_Lookup]_vars

C6_Witness ==
    \E r \in Reqs :
        /\ reqs[r].pc = "done" /\ reqs[r].status = 404 /\ reqs[r].x.kind = "oid"
        /\ ~NoDocWithOrderId(reqs[r].x)
        /\ NoDocWithId(reqs[r].x)

C6_Claimed ==
    \A r \in Reqs :
        Started(r) =>
            LET x == reqs'[r].x
            IN  reqs'[r].status = 404 <=> (NoDocWithId(x) /\ NoDocWithOrderId(x))

\* C6 (as claimed): get(x) and delete(x) answer NotFound if and only if no
\* document has storage identifier x and no document has order_id x.
C6_NotFoundIffNoMatch == [][C6_Claimed]_vars

C7_Delete ==
    \A r \in Reqs :
        /\ (reqs[r].pc = "found" /\ reqs'[r].pc = "done") =>
               IF reqs'[r].status = 200
               THEN \E d \in Matches(LookupQuery(reqs[r].x)) : store' = store \ {d}
               ELSE store' = store
        /\ (Started(r) /\ reqs'[r].op = "delete") =>
               /\ store' = store
               /\ (reqs'[r].after /\ reqs'[r].x.kind = "oid") =>
                      (reqs'[r].pc = "done" /\ reqs'[r].status = 404)
               /\ (reqs'[r].after /\ Matches(LookupQuery(reqs'[r].x)) = {}) =>
                      (reqs'[r].pc = "done" /\ reqs'[r].status = 404)

\* C7 (amended): a successful delete(x) removes exactly one document, one
\* that x matches, and leaves every other document unchanged; a second
\* delete(x) with no ingestion in between answers NotFound and changes
\* nothing when x is a storage identifier, or when no document with order_id
\* x is left; when x is an order_id that several documents share, the second
\* delete(x) finds another of them.
C7_DeleteExactlyOne == [][C7_Delete]_vars

C7_Witness ==
    \E r1, r2 \in Reqs :
        /\ r1 # r2
        /\ reqs[r1].op = "delete" /\ reqs[r1].pc = "done" /\ reqs[r1].status = 200
        /\ reqs[r2].op = "delete" /\ reqs[r2].pc = "done" /\ reqs[r2].after
        /\ reqs[r2].x = reqs[r1].x /\ reqs[r2].x.kind = "oid"
        /\ reqs[r2].status = 404
        /\ store # {}

\* C7 (as claimed): a delete(x) that follows a successful delete(x), with no
\* ingestion in between, answers NotFound, also when x is an order_id that
\* several documents share.
C7_SecondDeleteNotFound ==
    \A r \in Reqs :
        (reqs[r].op = "delete" /\ reqs[r].after /\ reqs[r].pc # "idle") =>
            (reqs[r].pc = "done" /\ reqs[r].status = 404)

\* C9: of two concurrent delete(x) for the same existing document one answers
\* success and the other NotFound; neither answers a server error.
C9_ConcurrentDeletes ==
    \A r1, r2 \in Reqs :
        ( /\ r1 # r2
          /\ reqs[r1].op = "delete" /\ reqs[r2].op = "delete"
          /\ reqs[r1].x = reqs[r2].x
          /\ reqs[r1].pc = "done" /\ reqs[r2].pc = "done"
          /\ reqs[r1].status = 200 ) =>
            reqs[r2].status \in {200, 404}

\* The text the recovery rule of the specification selects: after a json
\* fence, up to the next fence (to the end when none follows); else after
\* the first fence, up to the last one (to the end when the text holds one
\* fence marker only); else the whole response.
ClaimedJsonText(rc) ==
    IF Contains(rc, JsonFence)
    THEN LET a == Find(rc, JsonFence, 0) + 7
             b == Find(rc, Fence, a)
         IN  SubSeq(rc, a + 1, IF b = -1 THEN Len(rc) ELSE b)
    ELSE IF Contains(rc, Fence)
    THEN LET a == Find(rc, Fence, 0) + 3
             b == RFind(rc, Fence)
         IN  IF b = Find(rc, Fence, 0) THEN SubSeq(rc, a + 1, Len(rc))
             ELSE IF b < a THEN <<>>
             ELSE SubSeq(rc, a + 1, b)
    ELSE rc

\* C3: for every model response the text parsed as JSON is the text the
\* recovery rule selects (compared up to the surrounding whitespace, which
\* the JSON parser ignores), also when an opening fence is never closed and
\* when the response holds a single fence marker.
C3_RecoveredAsClaimed ==
    rpc = "done" => Strip(out) = Strip(ClaimedJsonText(Text(resp)))

====
